---- MODULE Spec2Model ----
(***************************************************************************)
(* BEAMS: behaviour-tree configuration (tree_config.py), the Worker        *)
(* handle (sequencer/helpers/Worker.py) and the tick protocol of the       *)
(* action executor and of the check-and-do node.                           *)
(*                                                                         *)
(* The specifications share the variables:                                 *)
(*   SpecConfig  construction and assembly of a CheckAndDoItem             *)
(*   SpecWorker  arbitrary start_work / stop_work calls on one Worker      *)
(*   Spec        an assembled tree driven by ticks and teardown            *)
(*   FairSpec    Spec with the fairness of the controller and of signal    *)
(*               delivery                                                  *)
(*   SpecRun     ticks of an assembled tree whose worker is the only       *)
(*               writer of the key, its caput calls counted                *)
(*   FairRun     SpecRun with ticks that keep coming and a worker that     *)
(*               keeps running                                             *)
(*   SpecCond    condition functions called on their own against the store *)
(***************************************************************************)
EXTENDS Integers, Sequences, FiniteSets, TLC

VARIABLES
    \* ---- configuration objects (tree_config.py)
    check,            \* the CheckAndDoItem's check item
    doObj,            \* the do configuration object handed to the CheckAndDoItem
    doArg,            \* that object as the caller wrote it, before __post_init__
    phase,            \* "config" | "constructed" | "assembled"
    tree,             \* the node built by the latest get_tree, or NoTree
    nAssembled,       \* number of get_tree calls made
    \* ---- external store (caget / caput)
    pv,               \* value held by each process variable
    connected,        \* whether each process variable can be read and written
    \* ---- Worker handle (Worker.py)
    do_work,          \* Worker.do_work.value
    proc,             \* Worker.work_proc: "initial" | "alive" | "exited" | "joined"
    termSignal,       \* a termination signal is pending for the process
    stop_func,        \* whether Worker.stop_func is not None
    launches,         \* number of processes launched by work_proc.start()
    wpc,              \* position of the worker process in its loop
    wres,             \* status returned by the latest work_func call
    \* ---- controller thread (the caller of start_work / stop_work / tick)
    ctl,              \* position of the controller inside stop_work
    caller,           \* who called the stop_work in progress
    call,             \* latest Worker method called
    callBit,          \* flips at every call of a Worker method
    result,           \* how the latest Worker method call ended
    steps,            \* steps performed by the latest stop_work call, in order
    \* ---- action executor and check-and-do node
    status,           \* executor state
    volatile_status,  \* shared status slot written by the worker
    pending,          \* terminal status sampled by the tick in progress
    lastReport,       \* status the executor returned to its latest tick
    nodeReport,       \* status the check-and-do node returned to its latest tick
    op,               \* latest operation of the tick driver
    tickBit,          \* flips at every tick
    sampled,          \* a tick has sampled the shared status slot
    \* ---- observation
    nWrites,          \* caput calls made by the worker process (counted runs)
    pv0,              \* value of the key when the counted run began
    nRunTicks,        \* ticks that reported RUNNING (counted runs), up to MaxTicks
    counted,          \* whether the run is a counted run
    cItem,            \* condition item whose condition function is called
    cOut,             \* what the latest call of that function did, or NoOut
    seqCall,          \* a conjunction's cond_func followed read by read, or NoCall
    procAtStop        \* state of work_proc when the stop_work in progress began

cfgVars == <<check, doObj, doArg, phase, tree, nAssembled>>
envVars == <<pv, connected>>
wkVars  == <<do_work, proc, termSignal, stop_func, launches, wpc, wres>>
ctlVars == <<ctl, caller, call, callBit, result, steps>>
exVars  == <<status, volatile_status, pending, lastReport, nodeReport, op, tickBit,
            sampled>>
cntVars == <<nWrites, pv0, nRunTicks, counted>>
evVars  == <<cItem, cOut, seqCall>>
obsVars == <<cntVars, evVars, procAtStop>>
vars    == <<cfgVars, envVars, wkVars, ctlVars, exVars, obsVars>>

(***************************************************************************)
(* Bounds                                                                  *)
(***************************************************************************)
MaxVal == 3
MaxAssemble == 2
MaxWrites == 4
MaxLen == 3
MaxTicks == 5

(***************************************************************************)
(* External store                                                          *)
(***************************************************************************)
PVs == {"X"}

\* caget returns None for a key that cannot be read
None == <<>>
Some(v) == <<v>>

\* what every key reads as in the current state
Reads == [p \in PVs |-> IF connected[p] THEN Some(pv[p]) ELSE None]

Caget(st, name) == IF name \in DOMAIN st THEN st[name] ELSE None

(***************************************************************************)
(* Configuration items                                                     *)
(***************************************************************************)
ConditionOperator == {"eq", "ne", "lt", "gt", "le", "ge"}

ConditionItem(name, pvname, value, operator) ==
    [type |-> "ConditionItem", name |-> name, pv |-> pvname,
     value |-> value, operator |-> operator]

\* field(default_factory=ConditionItem)
DefaultConditionItem == ConditionItem("", "", 1, "eq")

SequenceConditionItem(name, children) ==
    [type |-> "SequenceConditionItem", name |-> name, children |-> children]

RangeConditionItem(name, pvname, low, high) ==
    [type |-> "RangeConditionItem", name |-> name, pv |-> pvname,
     low_value |-> low, high_value |-> high]

UseCheckConditionItem ==
    [type |-> "UseCheckConditionItem", name |-> "", copy_from |-> "previous check"]

SetPVActionItem(name, pvname, value, tc) ==
    [type |-> "SetPVActionItem", name |-> name, pv |-> pvname,
     value |-> value, termination_check |-> tc]

IncPVActionItem(name, pvname, increment, tc) ==
    [type |-> "IncPVActionItem", name |-> name, pv |-> pvname,
     increment |-> increment, termination_check |-> tc]

\* getattr(operator, self.operator.value)
Op(operator, a, b) ==
    CASE operator = "eq" -> a = b
      [] operator = "ne" -> a # b
      [] operator = "lt" -> a < b
      [] operator = "gt" -> a > b
      [] operator = "le" -> a <= b
      [] operator = "ge" -> a >= b

\* RangeConditionItem built without high_value: the default of line 216,
\* "1,", is the one-element tuple (1,), not the number 1
RangeConditionItemDefaultHigh(name, pvname, low) ==
    [type |-> "RangeConditionItem", name |-> name, pv |-> pvname,
     low_value |-> low, high_value |-> 1, high_is_tuple |-> TRUE]

\* a ConditionItem whose value is the one-element tuple (n,)
TupleConditionItem(name, pvname, n, operator) ==
    [type |-> "ConditionItem", name |-> name, pv |-> pvname,
     value |-> n, operator |-> operator, value_is_tuple |-> TRUE]

IsTupleValued(item) == "value_is_tuple" \in DOMAIN item

\* RangeConditionItem._generate_subconfig (the children's names stand for
\* "<name>_lower_bound" and "<name>_upper_bound")
GenerateSubconfig(item) ==
    SequenceConditionItem(item.name,
        <<ConditionItem("lower_bound", item.pv, item.low_value, "ge"),
          IF "high_is_tuple" \in DOMAIN item
          THEN TupleConditionItem("upper_bound", item.pv, item.high_value, "le")
          ELSE ConditionItem("upper_bound", item.pv, item.high_value, "le")>>)

\* what one call of a condition function did: the value it returned, whether
\* it raised instead, and the caget calls it made, in order
Outcome(ok, raised, reads) == [ok |-> ok, raised |-> raised, reads |-> reads]

ReadBy(item) == [by |-> item.name, key |-> item.pv]

\* a number compared with a tuple: unequal under eq and ne, TypeError under
\* the four orderings
OpNumberTuple(operator, reads) ==
    IF operator \in {"eq", "ne"}
    THEN Outcome(operator = "ne", FALSE, reads)
    ELSE Outcome(FALSE, TRUE, reads)

\* the operands are swapped: op(self.value, val)
LeafEval_Swapped(item, st) ==
    LET val == Caget(st, item.pv)
    IN IF val = None THEN Outcome(FALSE, FALSE, <<ReadBy(item)>>)
       ELSE Outcome(Op(item.operator, item.value, val[1]), FALSE,
                    <<ReadBy(item)>>)

\* the closure returned by ConditionItem.get_condition_function, called once
LeafEval(item, st) ==
    LET val == Caget(st, item.pv)
    IN IF val = None THEN Outcome(FALSE, FALSE, <<ReadBy(item)>>)
       ELSE IF IsTupleValued(item)
       THEN OpNumberTuple(item.operator, <<ReadBy(item)>>)
       ELSE Outcome(Op(item.operator, val[1], item.value), FALSE,
                    <<ReadBy(item)>>)

LeafCondFunc(item, st) == LeafEval(item, st).ok

RECURSIVE CondEval(_, _)
RECURSIVE SeqEval(_, _, _, _, _)
RECURSIVE SeqEval_NoBreak(_, _, _, _, _)

\* no break: the loop goes on after a child returned false
SeqEval_NoBreak(children, i, ok, reads, st) ==
    IF i > Len(children) THEN Outcome(ok, FALSE, reads)
    ELSE LET c == CondEval(children[i], st)
             ok2 == ok /\ c.ok
         IN IF c.raised THEN Outcome(FALSE, TRUE, reads \o c.reads)
            ELSE SeqEval_NoBreak(children, i + 1, ok2, reads \o c.reads, st)

\* the loop of SequenceConditionItem's cond_func from child i on, after the
\* caget calls in reads
SeqEval(children, i, ok, reads, st) ==
    IF i > Len(children) THEN Outcome(ok, FALSE, reads)
    ELSE LET c == CondEval(children[i], st)
             ok2 == ok /\ c.ok
         IN IF c.raised THEN Outcome(FALSE, TRUE, reads \o c.reads)
            ELSE IF ~ok2 THEN Outcome(ok2, FALSE, reads \o c.reads)
            ELSE SeqEval(children, i + 1, ok2, reads \o c.reads, st)

SeqCondLoop(children, i, ok, st) == SeqEval(children, i, ok, <<>>, st).ok

\* item.get_condition_function()(), called once on the store reading st
CondEval(item, st) ==
    CASE item.type = "ConditionItem" -> LeafEval(item, st)
      [] item.type = "SequenceConditionItem" ->
             SeqEval(item.children, 1, TRUE, <<>>, st)
      [] item.type = "RangeConditionItem" ->
             CondEval(GenerateSubconfig(item), st)

\* the value returned by the condition function
CondFunc(item, st) == CondEval(item, st).ok

\* the condition function raises instead of returning
CondRaises(item, st) == CondEval(item, st).raised

\* whether item has a get_condition_function method
HasCondFunc(item) == item.type # "UseCheckConditionItem"

(***************************************************************************)
(* CheckAndDoItem                                                          *)
(***************************************************************************)
\* the sentinel replaces every termination check
PostInit_Always(do) ==
    [do EXCEPT !.termination_check = UseCheckConditionItem]

\* CheckAndDoItem.__post_init__: the do object after construction
PostInit(do) ==
    IF do.termination_check.name = ""
    THEN [do EXCEPT !.termination_check = UseCheckConditionItem]
    ELSE do

NoTree == [type |-> "NoTree"]

\* ActionNode(name, work_func, completion_condition) built by the action
\* item's get_tree: the work_func closes over the item
ActionGetTree(item) ==
    [type |-> "ActionNode", name |-> item.name, item |-> item,
     completion_condition |-> item.termination_check]

\* ConditionNode(name, cond_func) built by the condition item's get_tree
ConditionGetTree(item) ==
    [type |-> "ConditionNode", name |-> item.name, cond |-> item]

\* the privately mutated copy is written back to the shared do object
GetTree_InPlace(chk, do) ==
    LET active_do == IF do.termination_check.type = "UseCheckConditionItem"
                     THEN [do EXCEPT !.termination_check = chk]
                     ELSE do
    IN [tree |-> [type |-> "CheckAndDo",
                  check |-> ConditionGetTree(chk),
                  do |-> ActionGetTree(active_do)],
        do |-> active_do]

\* the copy is rebound to a fresh default condition, not to the check
GetTree_RebindDefault(chk, do) ==
    LET active_do == IF do.termination_check.type = "UseCheckConditionItem"
                     THEN [do EXCEPT !.termination_check = DefaultConditionItem]
                     ELSE do
    IN [tree |-> [type |-> "CheckAndDo",
                  check |-> ConditionGetTree(chk),
                  do |-> ActionGetTree(active_do)],
        do |-> do]

\* the check node is built from the do item's termination check
GetTree_WrongCheck(chk, do) ==
    LET active_do == IF do.termination_check.type = "UseCheckConditionItem"
                     THEN [do EXCEPT !.termination_check = chk]
                     ELSE do
    IN [tree |-> [type |-> "CheckAndDo",
                  check |-> ConditionGetTree(active_do.termination_check),
                  do |-> ActionGetTree(active_do)],
        do |-> do]

\* CheckAndDoItem.get_tree: the node built, and the shared do object afterwards
GetTree(chk, do) ==
    LET active_do == IF do.termination_check.type = "UseCheckConditionItem"
                     THEN [do EXCEPT !.termination_check = chk]
                     ELSE do
    IN [tree |-> [type |-> "CheckAndDo",
                  check |-> ConditionGetTree(chk),
                  do |-> ActionGetTree(active_do)],
        do |-> do]

(***************************************************************************)
(* Configurations explored                                                 *)
(***************************************************************************)
Checks ==
    { ConditionItem("chk", "X", 2, "ge"),
      ConditionItem("chk", "X", 1, "eq"),
      RangeConditionItem("rng", "X", 1, 2),
      SequenceConditionItem("seq", <<ConditionItem("a", "X", 1, "ge"),
                                     ConditionItem("b", "X", 3, "ne")>>) }

TermChecks ==
    { DefaultConditionItem,
      ConditionItem("own", "X", 3, "ge"),
      ConditionItem("", "X", 1, "le") }

DoItems ==
    { SetPVActionItem("do", "X", 2, tc) : tc \in TermChecks }
    \cup { IncPVActionItem("do", "X", 1, tc) : tc \in TermChecks }

(***************************************************************************)
(* Initial states                                                          *)
(***************************************************************************)
InitEnv ==
    /\ pv \in [PVs -> 0..MaxVal]
    /\ connected = [p \in PVs |-> TRUE]

NoOut == [type |-> "NoOut"]

\* no cond_func is being followed read by read
NoCall == [pc |-> "idle"]

\* Worker.__init__, and the executor before its first tick
InitRuntime ==
    /\ do_work = FALSE
    /\ proc = "initial"
    /\ termSignal = FALSE
    /\ stop_func \in BOOLEAN
    /\ launches = 0
    /\ wpc = "none"
    /\ wres = "INVALID"
    /\ ctl = "idle"
    /\ caller = "none"
    /\ call = "none"
    /\ callBit = 0
    /\ result = "none"
    /\ steps = <<>>
    /\ status = "IDLE"
    /\ volatile_status = "INVALID"
    /\ pending = "INVALID"
    /\ lastReport = "INVALID"
    /\ nodeReport = "INVALID"
    /\ op = "none"
    /\ tickBit = 0
    /\ sampled = FALSE
    /\ procAtStop = "none"

\* no counted run
InitCnt ==
    /\ nWrites = 0
    /\ pv0 = 0
    /\ nRunTicks = 0
    /\ counted = FALSE

\* no condition function under observation
InitEv ==
    /\ cItem = DefaultConditionItem
    /\ cOut = NoOut
    /\ seqCall = NoCall

InitObs == InitCnt /\ InitEv

\* a do object as the user wrote it; no CheckAndDoItem built from it yet
InitConfig ==
    /\ check \in Checks
    /\ doObj \in DoItems
    /\ doArg = doObj
    /\ phase = "config"
    /\ tree = NoTree
    /\ nAssembled = 0
    /\ InitEnv
    /\ InitRuntime
    /\ InitObs
    /\ stop_func = FALSE

\* a tree assembled once from a constructed CheckAndDoItem
InitTree ==
    /\ check \in Checks
    /\ \E d \in DoItems :
          /\ doArg = d
          /\ doObj = GetTree(check, PostInit(d)).do
          /\ tree = GetTree(check, PostInit(d)).tree
    /\ phase = "assembled"
    /\ nAssembled = 1
    /\ InitEnv
    /\ InitRuntime
    /\ InitObs

\* the do items of a counted run: the increment of the egg scaled to 1 and 2
StepDoItems ==
    DoItems \cup { IncPVActionItem("do", "X", 2, tc) : tc \in TermChecks }

\* an assembled tree whose worker is the only writer of the key from now on
InitCounted ==
    /\ check \in Checks
    /\ \E d \in StepDoItems :
          /\ doArg = d
          /\ doObj = GetTree(check, PostInit(d)).do
          /\ tree = GetTree(check, PostInit(d)).tree
    /\ phase = "assembled"
    /\ nAssembled = 1
    /\ InitEnv
    /\ InitRuntime
    /\ InitEv
    /\ nWrites = 0
    /\ pv0 = pv[tree.do.item.pv]
    /\ nRunTicks = 0
    /\ counted = TRUE

(***************************************************************************)
(* External store: other writers, and loss of the connection               *)
(***************************************************************************)
EnvWrite ==
    /\ \E p \in PVs, v \in 0..MaxVal :
          /\ v # pv[p]
          /\ pv' = [pv EXCEPT ![p] = v]
    /\ UNCHANGED <<connected, cfgVars, obsVars, wkVars, ctlVars, exVars>>

EnvConnection ==
    /\ \E p \in PVs : connected' = [connected EXCEPT ![p] = ~connected[p]]
    /\ UNCHANGED <<pv, cfgVars, obsVars, wkVars, ctlVars, exVars>>

(***************************************************************************)
(* Construction and assembly                                               *)
(***************************************************************************)
\* CheckAndDoItem(check=check, do=doObj): the dataclass runs __post_init__
Construct ==
    /\ phase = "config"
    /\ doObj' = PostInit(doObj)
    /\ phase' = "constructed"
    /\ UNCHANGED <<check, doArg, tree, nAssembled, obsVars, envVars, wkVars, ctlVars, exVars>>

\* one call of CheckAndDoItem.get_tree
Assemble ==
    /\ phase \in {"constructed", "assembled"}
    /\ nAssembled < MaxAssemble
    /\ LET r == GetTree(check, doObj)
       IN /\ HasCondFunc(r.tree.do.completion_condition)
          /\ tree' = r.tree
          /\ doObj' = r.do
    /\ phase' = "assembled"
    /\ nAssembled' = nAssembled + 1
    /\ UNCHANGED <<check, doArg, obsVars, envVars, wkVars, ctlVars, exVars>>

(***************************************************************************)
(* Work routines                                                           *)
(***************************************************************************)
HasPv(item) == "pv" \in DOMAIN item

NoWrite == <<>>

Raised == [status |-> "raised", write |-> NoWrite]

\* the try body of SetPVActionItem.get_tree.work_func, lines 260-270: the
\* status returned, or "raised", and the caput made, <<key, value>>
SetWorkBody(item, comp, st) ==
    IF ~HasPv(item.termination_check) THEN Raised
    ELSE IF CondRaises(comp, st) THEN Raised
    ELSE IF CondFunc(comp, st)
    THEN [status |-> "SUCCESS", write |-> NoWrite]
    ELSE [status |-> "RUNNING", write |-> <<item.pv, item.value>>]

\* one call of SetPVActionItem.get_tree.work_func: "except Exception"
\* turns whatever the body raised into FAILURE
SetWorkFunc(item, comp, st) ==
    LET r == SetWorkBody(item, comp, st)
    IN IF r.status = "raised" THEN [r EXCEPT !.status = "FAILURE"] ELSE r

\* the caput is made before the completion condition is looked at
IncWorkBody_WriteFirst(item, comp, st) ==
    LET value == Caget(st, item.pv)
    IN IF value = None THEN Raised
       ELSE IF CondRaises(comp, st) THEN Raised
       ELSE [status |-> IF CondFunc(comp, st) THEN "SUCCESS" ELSE "RUNNING",
             write |-> <<item.pv, value[1] + item.increment>>]

\* the try body of IncPVActionItem.get_tree.work_func, lines 301-311
IncWorkBody(item, comp, st) ==
    LET value == Caget(st, item.pv)
    IN IF CondRaises(comp, st) THEN Raised
       ELSE IF CondFunc(comp, st)
       THEN [status |-> "SUCCESS", write |-> NoWrite]
       ELSE IF value = None THEN Raised
       ELSE [status |-> "RUNNING", write |-> <<item.pv, value[1] + item.increment>>]

\* no except branch: what the body raised leaves the routine
IncWorkFunc_NoCatch(item, comp, st) == IncWorkBody(item, comp, st)

\* one call of IncPVActionItem.get_tree.work_func
IncWorkFunc(item, comp, st) ==
    LET r == IncWorkBody(item, comp, st)
    IN IF r.status = "raised" THEN [r EXCEPT !.status = "FAILURE"] ELSE r

WorkFunc(node, st) ==
    IF node.item.type = "SetPVActionItem"
    THEN SetWorkFunc(node.item, node.completion_condition, st)
    ELSE IncWorkFunc(node.item, node.completion_condition, st)

\* caput: a write to a key that is not connected fails and changes nothing
Caput(store, conn, w) ==
    IF w # NoWrite /\ w[1] \in DOMAIN store /\ conn[w[1]]
    THEN [store EXCEPT ![w[1]] = w[2]]
    ELSE store

(***************************************************************************)
(* The worker process: while do_work, one unit of work, then the status    *)
(***************************************************************************)
WorkerHead ==
    /\ proc = "alive" /\ wpc = "head"
    /\ IF do_work
       THEN wpc' = "work" /\ UNCHANGED <<proc, termSignal>>
       ELSE wpc' = "none" /\ proc' = "exited" /\ termSignal' = FALSE
    /\ UNCHANGED <<do_work, stop_func, launches, wres,
                   cfgVars, obsVars, envVars, ctlVars, exVars>>

\* one iteration of the loop body: a call of work_func
WorkerIteration ==
    /\ proc = "alive" /\ wpc = "work"
    /\ LET r == WorkFunc(tree.do, Reads)
       IN /\ r.write # NoWrite => r.write[2] <= MaxVal
          /\ wres' = r.status
          /\ pv' = Caput(pv, connected, r.write)
    /\ wpc' = "report"
    /\ UNCHANGED <<connected, do_work, proc, termSignal, stop_func, launches,
                   cfgVars, evVars, procAtStop, ctlVars, exVars>>

WorkerWork ==
    /\ WorkerIteration
    /\ UNCHANGED cntVars

\* the same iteration in a counted run
WorkerWorkCounted ==
    /\ WorkerIteration
    /\ IF WorkFunc(tree.do, Reads).write # NoWrite
       THEN nWrites < MaxWrites /\ nWrites' = nWrites + 1
       ELSE nWrites' = nWrites
    /\ UNCHANGED <<pv0, nRunTicks, counted>>

WorkerReport ==
    /\ proc = "alive" /\ wpc = "report"
    /\ volatile_status' = wres
    /\ wpc' = IF wres \in {"SUCCESS", "FAILURE"} THEN "exit" ELSE "head"
    /\ UNCHANGED <<do_work, proc, termSignal, stop_func, launches, wres,
                   status, pending, lastReport, nodeReport, op, tickBit, sampled,
                   cfgVars, obsVars, envVars, ctlVars>>

WorkerExit ==
    /\ proc = "alive" /\ wpc = "exit"
    /\ proc' = "exited"
    /\ wpc' = "none"
    /\ termSignal' = FALSE
    /\ UNCHANGED <<do_work, stop_func, launches, wres,
                   cfgVars, obsVars, envVars, ctlVars, exVars>>

\* delivery of the termination signal
WorkerKilled ==
    /\ proc = "alive" /\ termSignal
    /\ proc' = "exited"
    /\ wpc' = "none"
    /\ termSignal' = FALSE
    /\ UNCHANGED <<do_work, stop_func, launches, wres,
                   cfgVars, obsVars, envVars, ctlVars, exVars>>

WorkerStep == WorkerHead \/ WorkerWork \/ WorkerReport \/ WorkerExit \/ WorkerKilled

WorkerStepCounted ==
    WorkerHead \/ WorkerWorkCounted \/ WorkerReport \/ WorkerExit \/ WorkerKilled

(***************************************************************************)
(* Worker.start_work and Worker.stop_work                                  *)
(***************************************************************************)
\* the flag is not tested
StartWork_NoGuard ==
    /\ call' = "start_work"
    /\ callBit' = 1 - callBit
    /\ do_work' = TRUE
    /\ IF proc = "initial"
       THEN /\ proc' = "alive"
            /\ wpc' = "head"
            /\ launches' = launches + 1
            /\ result' = "ok"
       ELSE /\ result' = "raised"
            /\ UNCHANGED <<proc, wpc, launches>>
    /\ UNCHANGED <<termSignal, stop_func, wres>>

\* the flag is set but the process is not started
StartWork_NoLaunch ==
    /\ call' = "start_work"
    /\ callBit' = 1 - callBit
    /\ IF do_work
       THEN /\ result' = "error_logged"
            /\ UNCHANGED <<do_work, proc, wpc, launches>>
       ELSE /\ do_work' = TRUE
            /\ result' = "ok"
            /\ UNCHANGED <<proc, wpc, launches>>
    /\ UNCHANGED <<termSignal, stop_func, wres>>

\* Worker.start_work; Process.start() raises on a process started before
StartWork ==
    /\ call' = "start_work"
    /\ callBit' = 1 - callBit
    /\ IF do_work
       THEN /\ result' = "error_logged"
            /\ UNCHANGED <<do_work, proc, wpc, launches>>
       ELSE /\ do_work' = TRUE
            /\ IF proc = "initial"
               THEN /\ proc' = "alive"
                    /\ wpc' = "head"
                    /\ launches' = launches + 1
                    /\ result' = "ok"
               ELSE /\ result' = "raised"
                    /\ UNCHANGED <<proc, wpc, launches>>
    /\ UNCHANGED <<termSignal, stop_func, wres>>

\* the flag is not tested: the handle is stopped whatever its state
StopWorkEnter_NoGuard(who) ==
    /\ ctl = "idle"
    /\ call' = "stop_work"
    /\ callBit' = 1 - callBit
    /\ caller' = who
    /\ procAtStop' = proc
    /\ do_work' = FALSE
    /\ steps' = <<"flag">>
    /\ result' = "pending"
    /\ ctl' = "terminate"
    /\ UNCHANGED <<proc, termSignal, stop_func, launches, wpc, wres>>

\* Worker.stop_work, lines 47-51: the early return, or the flag set false
StopWorkEnter(who) ==
    /\ ctl = "idle"
    /\ call' = "stop_work"
    /\ callBit' = 1 - callBit
    /\ caller' = who
    /\ procAtStop' = proc
    /\ IF ~do_work
       THEN /\ result' = "error_logged"
            /\ steps' = <<>>
            /\ ctl' = "return"
            /\ UNCHANGED do_work
       ELSE /\ do_work' = FALSE
            /\ steps' = <<"flag">>
            /\ result' = "pending"
            /\ ctl' = "terminate"
    /\ UNCHANGED <<proc, termSignal, stop_func, launches, wpc, wres>>

\* no signal is sent: the stop relies on the flag alone
StopTerminate_NoSignal ==
    /\ ctl = "terminate"
    /\ steps' = Append(steps, "terminate")
    /\ ctl' = IF stop_func THEN "stop_func" ELSE "join"
    /\ UNCHANGED <<do_work, proc, termSignal, stop_func, launches, wpc, wres,
                   caller, call, callBit, result, cfgVars, obsVars, envVars, exVars>>

\* terminate() raises on a process that is no longer alive, and the
\* exception ends stop_work
StopTerminate_RaisesWhenDead ==
    /\ ctl = "terminate"
    /\ termSignal' = (termSignal \/ proc = "alive")
    /\ steps' = Append(steps, "terminate")
    /\ IF proc = "alive"
       THEN ctl' = (IF stop_func THEN "stop_func" ELSE "join") /\ UNCHANGED result
       ELSE ctl' = "return" /\ result' = "raised"
    /\ UNCHANGED <<do_work, proc, stop_func, launches, wpc, wres,
                   caller, call, callBit, cfgVars, obsVars, envVars, exVars>>

\* Worker.stop_work, line 55: work_proc.terminate()
StopTerminate ==
    /\ ctl = "terminate"
    /\ termSignal' = (termSignal \/ proc = "alive")
    /\ steps' = Append(steps, "terminate")
    /\ ctl' = IF stop_func THEN "stop_func" ELSE "join"
    /\ UNCHANGED <<do_work, proc, stop_func, launches, wpc, wres,
                   caller, call, callBit, result, cfgVars, obsVars, envVars, exVars>>

\* Worker.stop_work, lines 56-57: the optional cleanup
StopFunc ==
    /\ ctl = "stop_func"
    /\ steps' = Append(steps, "stop_func")
    /\ ctl' = "join"
    /\ UNCHANGED <<wkVars, caller, call, callBit, result,
                   cfgVars, obsVars, envVars, exVars>>

\* the join does not wait for the process
StopJoin_NoWait ==
    /\ ctl = "join"
    /\ proc' = IF proc = "exited" THEN "joined" ELSE proc
    /\ steps' = Append(steps, "join")
    /\ result' = "ok"
    /\ ctl' = "return"
    /\ UNCHANGED <<do_work, termSignal, stop_func, launches, wpc, wres,
                   caller, call, callBit, cfgVars, obsVars, envVars, exVars>>

\* Worker.stop_work, line 60: work_proc.join() blocks until the process exited
StopJoin ==
    /\ ctl = "join"
    /\ proc \in {"exited", "joined"}
    /\ proc' = "joined"
    /\ steps' = Append(steps, "join")
    /\ result' = "ok"
    /\ ctl' = "return"
    /\ UNCHANGED <<do_work, termSignal, stop_func, launches, wpc, wres,
                   caller, call, callBit, cfgVars, obsVars, envVars, exVars>>

StopWorkStep == StopTerminate \/ StopFunc \/ StopJoin

(***************************************************************************)
(* A Worker driven directly                                                *)
(***************************************************************************)
CallStartWork ==
    /\ ctl = "idle"
    /\ StartWork
    /\ UNCHANGED <<ctl, caller, steps, cfgVars, obsVars, envVars, exVars>>

CallStopWork ==
    /\ StopWorkEnter("direct")
    /\ UNCHANGED <<cfgVars, cntVars, evVars, envVars, exVars>>

StopWorkReturn ==
    /\ ctl = "return" /\ caller = "direct"
    /\ ctl' = "idle"
    /\ UNCHANGED <<caller, call, callBit, result, steps,
                   cfgVars, obsVars, envVars, wkVars, exVars>>

NextWorker ==
    \/ CallStartWork
    \/ CallStopWork
    \/ StopWorkStep
    \/ StopWorkReturn
    \/ WorkerStep
    \/ EnvWrite
    \/ EnvConnection

SpecWorker == InitTree /\ [][NextWorker]_vars

\* the work routine, handed do_work as its first argument (lines 33-35),
\* writes false to it while its process goes on running
WorkerClearsFlag ==
    /\ proc = "alive"
    /\ do_work
    /\ do_work' = FALSE
    /\ UNCHANGED <<proc, termSignal, stop_func, launches, wpc, wres,
                   cfgVars, obsVars, envVars, ctlVars, exVars>>

\* a Worker whose flag is written by the controller and by the worker
NextShared == NextWorker \/ WorkerClearsFlag

SpecShared == InitTree /\ [][NextShared]_vars

(***************************************************************************)
(* The action executor and the check-and-do node, driven by ticks          *)
(***************************************************************************)
Terminal == {"SUCCEEDED", "FAILED", "CANCELLED"}

\* the status a tick reports for an executor that has ended
ReportOf(s) == IF s = "SUCCEEDED" THEN "SUCCESS" ELSE "FAILURE"

\* a counted run counts the tick that reports RUNNING
RunningReported ==
    nRunTicks' = IF counted /\ nRunTicks < MaxTicks THEN nRunTicks + 1
                 ELSE nRunTicks

\* IDLE --tick--> RUNNING: start the worker, report RUNNING
TickStart(via) ==
    /\ ctl = "idle" /\ status = "IDLE"
    /\ op' = via
    /\ tickBit' = 1 - tickBit
    /\ volatile_status' = "RUNNING"
    /\ StartWork
    /\ status' = "RUNNING"
    /\ lastReport' = "RUNNING"
    /\ nodeReport' = IF via = "node_tick" THEN "RUNNING" ELSE nodeReport
    /\ RunningReported
    /\ UNCHANGED <<ctl, caller, steps, pending, sampled, nWrites, pv0, counted,
                   evVars, procAtStop, cfgVars, envVars>>

\* RUNNING --tick--> RUNNING: the sampled status is still RUNNING
TickRunning(via) ==
    /\ ctl = "idle" /\ status = "RUNNING"
    /\ volatile_status = "RUNNING"
    /\ op' = via
    /\ tickBit' = 1 - tickBit
    /\ sampled' = TRUE
    /\ lastReport' = "RUNNING"
    /\ nodeReport' = IF via = "node_tick" THEN "RUNNING" ELSE nodeReport
    /\ RunningReported
    /\ UNCHANGED <<status, volatile_status, pending, nWrites, pv0, counted,
                   evVars, procAtStop, cfgVars, envVars, wkVars, ctlVars>>

\* RUNNING --tick--> SUCCEEDED / FAILED: the tick stops the worker first
TickEnd(via) ==
    /\ status = "RUNNING"
    /\ volatile_status \in {"SUCCESS", "FAILURE"}
    /\ op' = via
    /\ tickBit' = 1 - tickBit
    /\ sampled' = TRUE
    /\ pending' = volatile_status
    /\ StopWorkEnter("tick")
    /\ UNCHANGED <<status, volatile_status, lastReport, nodeReport,
                   cfgVars, cntVars, evVars, envVars>>

\* the worker is stopped and joined: the tick reports the terminal status
TickFinish ==
    /\ ctl = "return" /\ caller = "tick"
    /\ status' = IF pending = "SUCCESS" THEN "SUCCEEDED" ELSE "FAILED"
    /\ lastReport' = pending
    /\ nodeReport' = IF op = "node_tick" THEN pending ELSE nodeReport
    /\ ctl' = "idle"
    /\ UNCHANGED <<volatile_status, pending, op, tickBit, sampled, caller, call,
                   callBit, result, steps, cfgVars, obsVars, envVars, wkVars>>

\* a tick of an executor that has ended
TickAbsorbed(via) ==
    /\ ctl = "idle" /\ status \in Terminal
    /\ op' = via
    /\ tickBit' = 1 - tickBit
    /\ lastReport' = ReportOf(status)
    /\ nodeReport' = IF via = "node_tick" THEN ReportOf(status) ELSE nodeReport
    /\ UNCHANGED <<status, volatile_status, pending, sampled,
                   cfgVars, obsVars, envVars, wkVars, ctlVars>>

Tick(via) == TickStart(via) \/ TickRunning(via) \/ TickEnd(via) \/ TickAbsorbed(via)

\* a tick of the ActionNode as the root of the tree
ActionTick == Tick("action_tick")

\* CheckAndDo tick: the check holds, SUCCESS without a tick of do
NodeTickCheckTrue ==
    /\ ctl = "idle"
    /\ CondFunc(tree.check.cond, Reads)
    /\ op' = "node_tick"
    /\ tickBit' = 1 - tickBit
    /\ nodeReport' = "SUCCESS"
    /\ UNCHANGED <<status, volatile_status, pending, lastReport, sampled,
                   cfgVars, obsVars, envVars, wkVars, ctlVars>>

\* CheckAndDo tick: the check fails, the tick is delegated to do
NodeTickDelegate ==
    /\ ctl = "idle"
    /\ ~CondFunc(tree.check.cond, Reads)
    /\ Tick("node_tick")

\* RUNNING --cancel--> CANCELLED: teardown stops the worker
Cancel ==
    /\ status = "RUNNING"
    /\ op' = "cancel"
    /\ StopWorkEnter("cancel")
    /\ UNCHANGED <<status, volatile_status, pending, lastReport, nodeReport,
                   tickBit, sampled, cfgVars, cntVars, evVars, envVars>>

CancelFinish ==
    /\ ctl = "return" /\ caller = "cancel"
    /\ status' = "CANCELLED"
    /\ ctl' = "idle"
    /\ UNCHANGED <<volatile_status, pending, lastReport, nodeReport, op, tickBit,
                   sampled, caller, call, callBit, result, steps,
                   cfgVars, obsVars, envVars, wkVars>>

Next ==
    \/ ActionTick
    \/ NodeTickCheckTrue
    \/ NodeTickDelegate
    \/ TickFinish
    \/ Cancel
    \/ CancelFinish
    \/ StopWorkStep
    \/ WorkerStep
    \/ EnvWrite
    \/ EnvConnection

Spec == InitTree /\ [][Next]_vars

\* the controller thread runs on, and a pending signal is delivered
FairSpec ==
    /\ Spec
    /\ WF_vars(StopWorkStep)
    /\ WF_vars(TickFinish)
    /\ WF_vars(CancelFinish)
    /\ WF_vars(WorkerKilled)

\* ticks only: no other writer, no loss of connection, no teardown
NextRun ==
    \/ ActionTick
    \/ NodeTickCheckTrue
    \/ NodeTickDelegate
    \/ TickFinish
    \/ StopWorkStep
    \/ WorkerStepCounted

SpecRun == InitCounted /\ [][NextRun]_vars

\* the tick driver keeps ticking, the controller thread and the worker
\* process keep running
FairRun ==
    /\ SpecRun
    /\ WF_vars(ActionTick)
    /\ WF_vars(TickFinish)
    /\ WF_vars(StopWorkStep)
    /\ WF_vars(WorkerStepCounted)

(***************************************************************************)
(* Condition functions called on their own                                 *)
(***************************************************************************)
\* every comparison of the key with a value of the store
LeafItems ==
    { ConditionItem("leaf", "X", v, o) : v \in 0..MaxVal, o \in ConditionOperator }

\* the comparisons a conjunction is built from, told apart by their names
ChildItems ==
    { ConditionItem("a", "X", 1, "ge"),
      ConditionItem("b", "X", 3, "ne"),
      ConditionItem("c", "X", 2, "le") }

SeqItems ==
    { SequenceConditionItem("seq", ch) :
        ch \in UNION { [1..n -> ChildItems] : n \in 0..MaxLen } }

RangeItems ==
    { RangeConditionItem("rng", "X", lo, hi) : lo \in 0..MaxVal, hi \in 0..MaxVal }
    \cup { RangeConditionItemDefaultHigh("rng", "X", lo) : lo \in 0..MaxVal }

CondItems == LeafItems \cup SeqItems \cup RangeItems

\* a condition item, no tree built, no call of its condition function yet
InitCond ==
    /\ cItem \in CondItems
    /\ cOut = NoOut
    /\ seqCall = NoCall
    /\ check = DefaultConditionItem
    /\ doObj = SetPVActionItem("", "", 1, DefaultConditionItem)
    /\ doArg = doObj
    /\ phase = "config"
    /\ tree = NoTree
    /\ nAssembled = 0
    /\ InitEnv
    /\ InitRuntime
    /\ InitCnt
    /\ stop_func = FALSE

\* cond_func(): one call of the function get_condition_function returned
CallCondFunc ==
    /\ cOut' = [out |-> CondEval(cItem, Reads), st |-> Reads,
                bit |-> IF cOut = NoOut THEN 0 ELSE 1 - cOut.bit]
    /\ UNCHANGED <<cItem, seqCall, cntVars, procAtStop, cfgVars, envVars, wkVars,
                   ctlVars, exVars>>

\* another condition item is looked at
PickItem ==
    /\ cItem' \in CondItems \ {cItem}
    /\ cOut' = NoOut
    /\ UNCHANGED <<seqCall, cntVars, procAtStop, cfgVars, envVars, wkVars, ctlVars,
                   exVars>>

NextCond == CallCondFunc \/ PickItem \/ EnvWrite \/ EnvConnection

SpecCond == InitCond /\ [][NextCond]_vars

(***************************************************************************)
(* A range condition called while another process writes its key           *)
(***************************************************************************)
\* a range item, its condition function not called yet
InitRange ==
    /\ cItem \in RangeItems
    /\ cOut = NoOut
    /\ seqCall = NoCall
    /\ check = DefaultConditionItem
    /\ doObj = SetPVActionItem("", "", 1, DefaultConditionItem)
    /\ doArg = doObj
    /\ phase = "config"
    /\ tree = NoTree
    /\ nAssembled = 0
    /\ InitEnv
    /\ InitRuntime
    /\ InitCnt
    /\ stop_func = FALSE

\* cond_func() of the conjunction the range generates is entered: ok = True,
\* no child called yet; held collects the values the key holds from now on
\* until the call returns
SeqCallEnter ==
    /\ seqCall.pc # "loop"
    /\ seqCall' = [pc |-> "loop", i |-> 1, ok |-> TRUE, got |-> <<>>,
                   held |-> {pv[cItem.pv]}]
    /\ UNCHANGED <<cItem, cOut, cntVars, procAtStop, cfgVars, envVars, wkVars,
                   ctlVars, exVars>>

\* one turn of the for loop: the next child's condition function makes its
\* caget and compares; a false child breaks the loop and the call returns,
\* as it does after the last child
SeqCallChild ==
    /\ seqCall.pc = "loop"
    /\ LET children == GenerateSubconfig(cItem).children
           c == LeafEval(children[seqCall.i], Reads)
           got2 == Append(seqCall.got, Caget(Reads, children[seqCall.i].pv))
           ok2 == seqCall.ok /\ c.ok
       IN seqCall' =
            IF c.raised
            THEN [seqCall EXCEPT !.pc = "raised", !.ok = FALSE, !.got = got2]
            ELSE IF ~ok2 \/ seqCall.i = Len(children)
            THEN [seqCall EXCEPT !.pc = "returned", !.ok = ok2, !.got = got2]
            ELSE [seqCall EXCEPT !.i = seqCall.i + 1, !.ok = ok2, !.got = got2]
    /\ UNCHANGED <<cItem, cOut, cntVars, procAtStop, cfgVars, envVars, wkVars,
                   ctlVars, exVars>>

\* another process writes the key, between two reads of a call or outside one
ConcurrentWrite ==
    /\ \E p \in PVs, v \in 0..MaxVal :
          /\ v # pv[p]
          /\ pv' = [pv EXCEPT ![p] = v]
          /\ seqCall' = IF seqCall.pc = "loop" /\ p = cItem.pv
                        THEN [seqCall EXCEPT !.held = seqCall.held \cup {v}]
                        ELSE seqCall
    /\ UNCHANGED <<connected, cItem, cOut, cntVars, procAtStop, cfgVars, wkVars,
                   ctlVars, exVars>>

NextRange == SeqCallEnter \/ SeqCallChild \/ ConcurrentWrite \/ EnvConnection

SpecRange == InitRange /\ [][NextRange]_vars

NextConfig == Construct \/ Assemble \/ EnvWrite \/ EnvConnection

SpecConfig == InitConfig /\ [][NextConfig]_vars

(***************************************************************************)
(* Properties                                                              *)
(***************************************************************************)
Range(q) == {q[i] : i \in 1..Len(q)}

IsPrefix(a, b) == Len(a) <= Len(b) /\ a = SubSeq(b, 1, Len(a))

StepsOfStop ==
    IF stop_func THEN <<"flag", "terminate", "stop_func", "join">>
    ELSE <<"flag", "terminate", "join">>

Sentinel(do) == do.termination_check = UseCheckConditionItem

\* this step is a tick that reached the executor
ExecutorTicked ==
    /\ tickBit' # tickBit
    /\ ~(op' = "node_tick" /\ CondFunc(tree.check.cond, Reads))

\* C1: a tick has reported SUCCESS or FAILURE only when the controller is out
\* of stop_work with the flag false and the worker process joined (so not
\* live), and a tick has sampled the status slot only after the worker was
\* launched.
C1_TerminalAfterJoin ==
    /\ lastReport \in {"SUCCESS", "FAILURE"} =>
           ctl = "idle" /\ ~do_work /\ proc = "joined"
    /\ sampled => launches >= 1

C1_Witness ==
    /\ lastReport = "SUCCESS"
    /\ status = "SUCCEEDED"
    /\ proc = "joined"
    /\ "join" \in Range(steps)

\* C2: the executor status moves only along IDLE->RUNNING, RUNNING->SUCCEEDED,
\* RUNNING->FAILED and RUNNING->CANCELLED; the step IDLE->RUNNING launches the
\* worker and reports RUNNING; once the status is terminal it never changes,
\* no process is launched and a tick reports the terminal status, never
\* RUNNING.
C2_Transitions ==
    [][ /\ status' # status =>
               <<status, status'>> \in {<<"IDLE", "RUNNING">>,
                                        <<"RUNNING", "SUCCEEDED">>,
                                        <<"RUNNING", "FAILED">>,
                                        <<"RUNNING", "CANCELLED">>}
        /\ (status = "IDLE" /\ status' = "RUNNING") =>
               /\ launches' = launches + 1
               /\ proc' = "alive"
               /\ do_work'
               /\ lastReport' = "RUNNING"
        /\ status \in Terminal =>
               /\ status' = status
               /\ launches' = launches
               /\ proc' # "alive"
               /\ ExecutorTicked => lastReport' = ReportOf(status)
      ]_vars

C2_Witness ==
    /\ status = "CANCELLED"
    /\ lastReport = "FAILURE"
    /\ launches = 1

\* C3: a tick of the check-and-do node taken while the item's check holds on
\* the store reports SUCCESS and changes neither the worker (no launch, no
\* call of the work routine) nor the executor; a tick taken while the check
\* fails is a tick of do, and the node reports what do reported.
C3_CheckAndDoTick ==
    [][ /\ (tickBit' # tickBit /\ op' = "node_tick" /\ CondFunc(check, Reads)) =>
               /\ nodeReport' = "SUCCESS"
               /\ UNCHANGED <<wkVars, ctlVars, status, volatile_status, lastReport>>
        /\ (tickBit' # tickBit /\ op' = "node_tick" /\ ~CondFunc(check, Reads)) =>
               /\ ctl' = "idle" =>
                      /\ nodeReport' = lastReport'
                      /\ lastReport' = IF status \in Terminal
                                       THEN ReportOf(status) ELSE "RUNNING"
               /\ ctl' # "idle" => caller' = "tick" /\ pending' = volatile_status
        /\ (ctl = "return" /\ caller = "tick" /\ op = "node_tick" /\ ctl' = "idle") =>
               nodeReport' = lastReport' /\ lastReport' = pending
      ]_vars

C3_Witness ==
    /\ op = "node_tick"
    /\ nodeReport = "SUCCESS"
    /\ CondFunc(check, Reads)
    /\ status = "IDLE"
    /\ proc = "initial"
    /\ launches = 0

\* C4: start_work called while the flag is true logs an error and returns,
\* leaving the flag, the process and the launch count as they were; and one
\* handle launches at most one process, whatever calls are made.
C4_StartNoOp ==
    /\ [][ (callBit' # callBit /\ call' = "start_work" /\ do_work) =>
               /\ result' = "error_logged"
               /\ UNCHANGED <<do_work, proc, launches, termSignal, wpc, ctl, steps>>
         ]_vars
    /\ [](launches <= 1 /\ (proc = "alive" => launches = 1))

C4_Witness ==
    /\ call = "start_work"
    /\ result = "error_logged"
    /\ proc = "alive"
    /\ do_work

\* C5: stop_work called while the flag is false logs an error and returns at
\* once: the flag stays false, no signal is sent, stop_func and join are not
\* run, and the process is as it was.
C5_StopNoOp ==
    /\ [][ (callBit' # callBit /\ call' = "stop_work" /\ ~do_work) =>
               /\ result' = "error_logged"
               /\ steps' = <<>>
               /\ ctl' = "return"
               /\ UNCHANGED <<do_work, proc, termSignal, launches, wpc, wres>>
         ]_vars
    /\ [][ (ctl = "return" /\ result = "error_logged" /\ ctl' # ctl) =>
               /\ ctl' = "idle"
               /\ steps' = <<>>
               /\ UNCHANGED wkVars
         ]_vars

C5_Witness ==
    /\ call = "stop_work"
    /\ result = "error_logged"
    /\ ctl = "idle"
    /\ proc = "initial"
    /\ launches = 0
    /\ ~do_work

\* C6: the steps of a stop_work on a running Worker come in the order flag,
\* terminate, stop_func (when given), join; the flag is false from the first
\* step on, a live process has the signal pending from terminate on, and when
\* the call returns the flag is false and the process has exited and is
\* joined.
C6_StopOrder ==
    /\ IsPrefix(steps, StepsOfStop)
    /\ ctl \in {"terminate", "stop_func", "join"} => ~do_work
    /\ (ctl \in {"stop_func", "join"} /\ proc = "alive") => termSignal
    /\ (ctl = "return" /\ call = "stop_work" /\ result = "ok") =>
           steps = StepsOfStop /\ ~do_work /\ proc = "joined"

C6_Witness ==
    /\ ctl = "return"
    /\ call = "stop_work"
    /\ result = "ok"
    /\ steps = <<"flag", "terminate", "stop_func", "join">>
    /\ wpc = "none"
    /\ wres = "RUNNING"

\* C7: a cancellation that has begun eventually completes, with the flag
\* false, the worker joined and the executor CANCELLED; a cancelled executor
\* has never reported SUCCESS and reports FAILURE to later ticks.
C7_CancelCompletes ==
    /\ (op = "cancel" /\ ctl # "idle") ~>
           (ctl = "idle" /\ status = "CANCELLED" /\ ~do_work /\ proc = "joined")
    /\ [](status = "CANCELLED" =>
              /\ lastReport \in {"RUNNING", "FAILURE"}
              /\ ReportOf(status) = "FAILURE"
              /\ ~do_work
              /\ proc = "joined")

C7_Witness ==
    /\ status = "CANCELLED"
    /\ volatile_status = "RUNNING"
    /\ ~CondFunc(tree.do.completion_condition, Reads)
    /\ ~do_work
    /\ proc = "joined"

\* C8: when the do object carries the sentinel, the completion condition of
\* the assembled do node and the condition of the assembled check node give
\* the same boolean on every store, readable or not.
C8_SameCondition ==
    (phase = "assembled" /\ Sentinel(doObj)) =>
        CondFunc(tree.do.completion_condition, Reads)
            = CondFunc(tree.check.cond, Reads)

C8_Witness ==
    /\ phase = "assembled"
    /\ Sentinel(doObj)
    /\ ~connected["X"]
    /\ ~CondFunc(tree.do.completion_condition, Reads)

\* C9: every get_tree call made while the do object carries the sentinel
\* leaves the sentinel in place and builds a do node whose completion
\* condition, and whose item's termination check, is the check.
C9_AssemblyKeepsSentinel ==
    [][ (nAssembled' = nAssembled + 1 /\ Sentinel(doObj)) =>
            /\ Sentinel(doObj')
            /\ tree'.do.completion_condition = check
            /\ tree'.do.item.termination_check = check
      ]_vars

C9_Witness ==
    /\ nAssembled = MaxAssemble
    /\ Sentinel(doObj)
    /\ tree.do.completion_condition = check

\* C10 as claimed: the do object's termination_check never changes.
C10_Original ==
    [][doObj'.termination_check = doObj.termination_check]_vars

\* C10 as amended: construction replaces the termination check of the do
\* object by the sentinel when that check has an empty name and leaves the
\* do object alone otherwise; no get_tree call changes the do object.
C10_OnlyConstructionMutates ==
    [][ /\ (phase = "config" /\ phase' = "constructed") =>
               doObj' = IF doObj.termination_check.name = ""
                        THEN [doObj EXCEPT !.termination_check = UseCheckConditionItem]
                        ELSE doObj
        /\ phase # "config" => doObj' = doObj
      ]_vars

C10_Witness ==
    /\ phase = "assembled"
    /\ nAssembled = MaxAssemble
    /\ Sentinel(doObj)
    /\ tree.do.item.termination_check = check
    /\ doObj.termination_check # check

(***************************************************************************)
(* Work routines                                                           *)
(***************************************************************************)
DoItem == tree.do.item

Completion == tree.do.completion_condition

IsInc == DoItem.type = "IncPVActionItem"

IsSet == DoItem.type = "SetPVActionItem"

\* the worker process makes one call of work_func in this step
WorkCall == wpc = "work" /\ wpc' = "report"

\* the store in which every key holds v
AllAt(v) == [p \in PVs |-> Some(v)]

\* C11: under the Increment policy with step s and no other writer, an
\* iteration whose completion condition is false writes the value read plus
\* s, and an iteration whose condition is true writes nothing; so after n
\* writes the key holds v0 + n*s, the condition was false at v0 + j*s for
\* every j < n, and once the worker has seen the condition hold, n stays the
\* first k at which it holds, whatever ticks follow.
C11_IncrementWrites ==
    /\ [][(IsInc /\ WorkCall) =>
            IF CondFunc(Completion, Reads)
            THEN pv' = pv /\ nWrites' = nWrites /\ wres' = "SUCCESS"
            ELSE /\ pv' = [pv EXCEPT ![DoItem.pv] = pv[DoItem.pv] + DoItem.increment]
                 /\ nWrites' = nWrites + 1
                 /\ wres' = "RUNNING"]_vars
    /\ [](IsInc =>
            /\ pv[DoItem.pv] = pv0 + nWrites * DoItem.increment
            /\ \A j \in 0..(nWrites - 1) :
                  ~CondFunc(Completion, AllAt(pv0 + j * DoItem.increment))
            /\ (wres = "SUCCESS" \/ status = "SUCCEEDED") =>
                  CondFunc(Completion, AllAt(pv0 + nWrites * DoItem.increment)))

\* two increments of 1 from 0 reached the target, and the executor succeeded
C11_Witness ==
    /\ IsInc /\ DoItem.increment = 1
    /\ pv0 = 0 /\ nWrites = 2 /\ pv[DoItem.pv] = 2
    /\ status = "SUCCEEDED"
    /\ proc = "joined"

\* C12: under the Set policy, once the completion condition holds on the
\* store while the executor is running and ticks keep coming, the executor
\* eventually reports SUCCEEDED with no live worker left.
C12_SetSucceeds ==
    (IsSet /\ status = "RUNNING" /\ CondFunc(Completion, Reads))
        ~> (status = "SUCCEEDED" /\ lastReport = "SUCCESS" /\ proc = "joined")

\* the same, for the termination checks that have a pv attribute
C12_SetSucceedsWithPv ==
    (IsSet /\ HasPv(DoItem.termination_check)
        /\ status = "RUNNING" /\ CondFunc(Completion, Reads))
        ~> (status = "SUCCEEDED" /\ lastReport = "SUCCESS" /\ proc = "joined")

\* the caput of this work_func call fails: its key is not connected
WriteFails ==
    LET r == WorkFunc(tree.do, Reads)
    IN r.write # NoWrite /\ ~connected[r.write[1]]

\* C13: a work_func call whose caput fails returns FAILURE.
C13_WriteFailureReported ==
    [][(WorkCall /\ WriteFails) => wres' = "FAILURE"]_vars

\* the unit of work of this call raises: value + increment with an
\* unreadable value, or the pv attribute missing from the termination check
UnitRaises ==
    \/ IsInc /\ ~CondFunc(Completion, Reads) /\ Caget(Reads, DoItem.pv) = None
    \/ IsSet /\ ~HasPv(DoItem.termination_check)

StatusValues == {"SUCCESS", "RUNNING", "FAILURE"}

\* C14: every call of a work routine returns a status, a call whose unit of
\* work raises returns FAILURE and makes no write, and every tick reports a
\* status.
C14_ExceptionsCaught ==
    /\ [][WorkCall =>
            /\ wres' \in StatusValues
            /\ UnitRaises => (wres' = "FAILURE" /\ pv' = pv)]_vars
    /\ [](/\ volatile_status \in StatusValues \cup {"INVALID"}
          /\ lastReport \in StatusValues \cup {"INVALID"}
          /\ result # "raised")

\* an Increment iteration on an unreadable key ended the executor as FAILED
C14_Witness ==
    /\ IsInc /\ HasPv(DoItem.termination_check)
    /\ wres = "FAILURE"
    /\ status = "FAILED" /\ lastReport = "FAILURE"
    /\ proc = "joined"

(***************************************************************************)
(* Condition functions                                                     *)
(***************************************************************************)
Called == cOut # NoOut

\* the children of the conjunction that are false on the reading st
FalseChildren(st) ==
    { i \in 1..Len(cItem.children) : ~LeafCondFunc(cItem.children[i], st) }

\* the last child the conjunction has to call: the first false one, or the
\* last of the list
LastCalled(st) ==
    IF FalseChildren(st) = {} THEN Len(cItem.children)
    ELSE CHOOSE i \in FalseChildren(st) : \A j \in FalseChildren(st) : i <= j

\* C15: a call of a conjunction's condition function reads for its children
\* in declared order up to the first false child and for none after it,
\* returns true exactly when every child is true, and returns true without
\* any read for an empty list.
C15_ConjunctionShortCircuit ==
    (Called /\ cItem.type = "SequenceConditionItem") =>
        /\ ~cOut.out.raised
        /\ cOut.out.ok = (FalseChildren(cOut.st) = {})
        /\ cOut.out.reads =
              [i \in 1..LastCalled(cOut.st) |-> ReadBy(cItem.children[i])]
        /\ cItem.children = <<>> => (cOut.out.ok /\ cOut.out.reads = <<>>)

\* three children, the second one false: two reads, and false
C15_Witness ==
    /\ Called /\ cItem.type = "SequenceConditionItem"
    /\ Len(cItem.children) = MaxLen
    /\ LeafCondFunc(cItem.children[1], cOut.st)
    /\ ~LeafCondFunc(cItem.children[2], cOut.st)
    /\ Len(cOut.out.reads) = 2
    /\ ~cOut.out.ok

\* C16: a call of a leaf comparison's condition function does not raise,
\* makes one read, returns false when the key is unreadable and otherwise
\* the comparison of the value read with the configured value under the
\* configured operator; the call changes nothing but its record, and a
\* second call on the same store returns the same.
C16_LeafComparison ==
    /\ []((Called /\ cItem.type = "ConditionItem") =>
            LET val == Caget(cOut.st, cItem.pv)
                o == cItem.operator
            IN /\ ~cOut.out.raised
               /\ cOut.out.reads = <<ReadBy(cItem)>>
               /\ val = None => ~cOut.out.ok
               /\ val # None =>
                    /\ o = "eq" => (cOut.out.ok <=> val[1] = cItem.value)
                    /\ o = "ne" => (cOut.out.ok <=> val[1] # cItem.value)
                    /\ o = "lt" => (cOut.out.ok <=> val[1] < cItem.value)
                    /\ o = "gt" => (cOut.out.ok <=> val[1] > cItem.value)
                    /\ o = "le" => (cOut.out.ok <=> val[1] <= cItem.value)
                    /\ o = "ge" => (cOut.out.ok <=> val[1] >= cItem.value))
    /\ [][(Called' /\ cOut' # cOut /\ cItem.type = "ConditionItem") =>
            /\ UNCHANGED <<cItem, cntVars, procAtStop, cfgVars, envVars, wkVars,
                           ctlVars, exVars>>
            /\ (Called /\ cOut.st = Reads) => cOut'.out = cOut.out]_vars

\* a second call on the same store: the key reads 2, and 2 < 3 holds
C16_Witness ==
    /\ Called /\ cItem.type = "ConditionItem"
    /\ cOut.bit = 1
    /\ cItem.operator = "lt" /\ cItem.value = 3
    /\ cOut.st = [p \in PVs |-> Some(2)]
    /\ cOut.out.ok

HighIsNumber == ~("high_is_tuple" \in DOMAIN cItem)

\* the conjunction the range stands for: [K >= low] then [K <= high]
AsConjunction ==
    SequenceConditionItem(cItem.name,
        <<ConditionItem("lower_bound", cItem.pv, cItem.low_value, "ge"),
          IF HighIsNumber
          THEN ConditionItem("upper_bound", cItem.pv, cItem.high_value, "le")
          ELSE TupleConditionItem("upper_bound", cItem.pv, cItem.high_value, "le")>>)

\* what a call of the range's condition function did agrees with the
\* conjunction, and with low <= value <= high when high is a number
RangeAgrees ==
    LET val == Caget(cOut.st, cItem.pv)
    IN /\ cOut.out = CondEval(AsConjunction, cOut.st)
       /\ HighIsNumber =>
            (cOut.out.ok <=>
                (val # None /\ cItem.low_value <= val[1]
                            /\ val[1] <= cItem.high_value))

\* C17: a call of a range's condition function never raises and returns
\* what the conjunction [K >= low] then [K <= high] returns: true exactly
\* when the key is readable and low <= value <= high.
C17_RangeNeverRaises ==
    (Called /\ cItem.type = "RangeConditionItem") =>
        (~cOut.out.raised /\ RangeAgrees)

\* the same for the ranges built with a number as high_value
C17_RangeWithNumbers ==
    (Called /\ cItem.type = "RangeConditionItem" /\ HighIsNumber) =>
        (~cOut.out.raised /\ RangeAgrees)

\* the store after the caput of w to a key that takes it or not
Written(key, value) == Caput(pv, connected, <<key, value>>)

\* one call of the Set work routine: SUCCESS and no write when the
\* completion condition holds, else the configured value written to the
\* configured key and RUNNING
SetIteration ==
    IF CondFunc(Completion, Reads)
    THEN wres' = "SUCCESS" /\ pv' = pv
    ELSE wres' = "RUNNING" /\ pv' = Written(DoItem.pv, DoItem.value)

\* C18: every call of the Set policy work routine returns SUCCESS without
\* writing when the completion condition holds, and otherwise writes the
\* configured value to the configured key and returns RUNNING.
C18_SetIteration ==
    [][(IsSet /\ WorkCall) => SetIteration]_vars

\* the same for the termination checks that have a pv attribute
C18_SetIterationWithPv ==
    [][(IsSet /\ HasPv(DoItem.termination_check) /\ WorkCall) => SetIteration]_vars

AllConnected == \A p \in PVs : connected[p]

\* the value the policy writes
PolicyValue ==
    IF IsSet THEN DoItem.value ELSE pv[DoItem.pv] + DoItem.increment

\* C19: while every read and write succeeds, a call of either work routine
\* returns SUCCESS without writing exactly when the completion condition
\* holds, and otherwise makes its one write and returns RUNNING; it never
\* returns FAILURE, whatever kind of condition the termination check is.
C19_PoliciesAgree ==
    [][(WorkCall /\ AllConnected) =>
          IF CondFunc(Completion, Reads)
          THEN wres' = "SUCCESS" /\ pv' = pv
          ELSE wres' = "RUNNING" /\ pv' = Written(DoItem.pv, PolicyValue)]_vars

\* the same with the Set policy kept to termination checks that have a pv
C19_PoliciesAgreeWithPv ==
    [][(WorkCall /\ AllConnected /\ (IsSet => HasPv(DoItem.termination_check))) =>
          IF CondFunc(Completion, Reads)
          THEN wres' = "SUCCESS" /\ pv' = pv
          ELSE wres' = "RUNNING" /\ pv' = Written(DoItem.pv, PolicyValue)]_vars

(***************************************************************************)
(* stop_work after the process has exited                                  *)
(***************************************************************************)
\* the latest call is a stop_work that found the flag true and the process
\* already exited
StopAfterExit ==
    call = "stop_work" /\ procAtStop = "exited" /\ result # "error_logged"

\* C20: a stop_work called with the flag true after the process has exited
\* on its own sets the flag false, is never blocked and never raises,
\* returns with the process joined after the steps of any stop_work, and a
\* stop_work called right after it returns as the no-op of a false flag.
C20_StopAfterNaturalExit ==
    /\ [](StopAfterExit =>
            /\ ~do_work
            /\ result \in {"pending", "ok"}
            /\ ctl \in {"terminate", "stop_func", "join"} => ENABLED StopWorkStep
            /\ ctl \in {"return", "idle"} =>
                  (result = "ok" /\ proc = "joined" /\ steps = StepsOfStop))
    /\ [][(StopAfterExit /\ ctl = "idle" /\ callBit' # callBit
              /\ call' = "stop_work") =>
            /\ result' = "error_logged"
            /\ steps' = <<>>
            /\ UNCHANGED <<do_work, proc, termSignal, launches, wpc, wres>>]_vars

\* the worker returned SUCCESS and exited with the flag true; the stop_work
\* that followed has returned
C20_Witness ==
    /\ StopAfterExit
    /\ ctl = "return" /\ result = "ok"
    /\ wres = "SUCCESS"
    /\ proc = "joined" /\ ~do_work

(***************************************************************************)
(* Ticks that report RUNNING                                               *)
(***************************************************************************)
\* the executor of an Increment run has reported SUCCEEDED
IncSucceeded == IsInc /\ status = "SUCCEEDED"

\* C21 as stated: when an Increment run has succeeded after k worker
\* increments, fewer than k + 1 ticks reported RUNNING before.
C21_Original ==
    IncSucceeded => nRunTicks < nWrites + 1

\* C21: when an Increment run has succeeded, at least one tick reported
\* RUNNING before, the worker made exactly the k increments after which the
\* condition first holds, and no tick wrote the key or made an increment:
\* the number of RUNNING ticks is independent of k.
C21_RunningTicks ==
    /\ [](IncSucceeded =>
            /\ nRunTicks >= 1
            /\ pv[DoItem.pv] = pv0 + nWrites * DoItem.increment
            /\ CondFunc(Completion, AllAt(pv0 + nWrites * DoItem.increment))
            /\ \A j \in 0..(nWrites - 1) :
                  ~CondFunc(Completion, AllAt(pv0 + j * DoItem.increment)))
    /\ [][tickBit' # tickBit => (pv' = pv /\ nWrites' = nWrites)]_vars

\* one increment was enough, and MaxTicks ticks reported RUNNING before the
\* tick that reported SUCCEEDED
C21_Witness ==
    /\ IncSucceeded
    /\ nWrites = 1
    /\ nRunTicks = MaxTicks
    /\ lastReport = "SUCCESS"

(***************************************************************************)
(* The flag written by both sides                                          *)
(***************************************************************************)
\* the latest call is a stop_work made while the process was live, and it
\* has returned
StoppedWhileLive ==
    call = "stop_work" /\ procAtStop = "alive" /\ ctl \in {"return", "idle"}

\* C22: a stop_work call made while the process of a started Worker is live
\* has, when it returns, terminated and joined that process, whoever wrote
\* the flag before.
C22_NoOrphan ==
    StoppedWhileLive => (proc = "joined" /\ result = "ok")

\* the same for a flag that only the controller writes
C22_NoOrphanControllerOnly ==
    [](StoppedWhileLive => (proc = "joined" /\ result = "ok"))

(***************************************************************************)
(* The flag and the process                                                *)
(***************************************************************************)
\* the process has been launched and has not been joined
LaunchedNotJoined == proc \in {"alive", "exited"}

\* C23: the flag is true only while the process launched by the latest
\* start_work has not been joined, and a start_work that launched no
\* process has not left the flag true.
C23_FlagMeansLaunched ==
    /\ do_work => LaunchedNotJoined
    /\ (call = "start_work" /\ result = "raised") => ~do_work

(***************************************************************************)
(* A termination check written by the caller                               *)
(***************************************************************************)
\* the caller passed a termination check of their own: the field does not hold
\* the item its default factory produces
Explicit(do) == do.termination_check # DefaultConditionItem

\* C24: construction replaces the termination check by the sentinel only when
\* none was configured: a termination check the caller supplied, whatever its
\* name and an empty name included, is still the do object's termination check
\* after construction and is the completion condition of the assembled do node.
C24_ExplicitCheckKept ==
    /\ [][ (phase = "config" /\ phase' = "constructed" /\ Explicit(doArg)) =>
               doObj'.termination_check = doArg.termination_check ]_vars
    /\ []( (phase = "assembled" /\ Explicit(doArg)) =>
               tree.do.completion_condition = doArg.termination_check )

\* the same for the supplied termination checks that carry a name
C24_NamedCheckKept ==
    (phase = "assembled" /\ Explicit(doArg) /\ doArg.termination_check.name # "") =>
        tree.do.completion_condition = doArg.termination_check

(***************************************************************************)
(* A range read twice                                                      *)
(***************************************************************************)
\* the call of the range's condition function has returned true
RangeReturnedTrue == seqCall.pc = "returned" /\ seqCall.ok

InRange(v) == cItem.low_value <= v /\ v <= cItem.high_value

\* C25: whenever a range condition returns true while another process writes
\* its key, some single value the key held during the evaluation lies between
\* low and high; true is never the combination of a lower-bound read and an
\* upper-bound read of two values neither of which is in the range.  Stated
\* for the ranges that contain a value, low <= high.
C25_SingleValueInRange ==
    (RangeReturnedTrue /\ cItem.low_value <= cItem.high_value) =>
        \E v \in seqCall.held : InRange(v)

\* the same for a call during which nobody wrote the key
C25_QuietCallInRange ==
    (RangeReturnedTrue /\ Cardinality(seqCall.held) = 1) =>
        \A v \in seqCall.held : InRange(v)

====
